---- MODULE Spec2Model ----
(***************************************************************************)
(* A model of get_papers.py: the three retrieval stages (fetch_papers,     *)
(* get_paper_details, get_author_affiliations), the classification         *)
(* predicate is_non_academic_affiliation and the __main__ pipeline.        *)
(*                                                                         *)
(* Python strings are sequences of one-character strings, so that lower(), *)
(* strip(), join() and the substring test are computed, not assumed.       *)
(***************************************************************************)
EXTENDS Integers, Sequences, FiniteSets, TLC

VARIABLES
    entry,           \* what was started: "__main__" or the function called directly
    pc,              \* position of the single thread of control
    query,           \* __main__: query (line 112)
    max_retries,     \* parameter of the stage call in progress
    delay,           \* parameter of the stage call in progress
    attempt,         \* loop variable of `for attempt in range(max_retries)`
    arg,             \* arguments of the call in progress, by parameter name
    ret,             \* what the last call returned
    paper_ids,       \* __main__: paper_ids (line 115)
    paper_data,      \* __main__: paper_data (line 120)
    idx,             \* __main__: position of `for paper_id in paper_ids` (1-based)
    filtered_papers, \* __main__: filtered_papers (line 125)
    csv,             \* the file filtered_papers.csv
    log              \* what the run has done so far: HTTP requests, sleeps, file writes

vars == <<entry, pc, query, max_retries, delay, attempt, arg, ret, paper_ids,
          paper_data, idx, filtered_papers, csv, log>>

-----------------------------------------------------------------------------
(* Bounds of the model. *)

\* longest identifier list a search response carries
MaxIds == 2
\* largest max_retries a stage function is called with directly
MaxRetriesArg == 3
\* most requests that fail in one run
MaxFailures == 3
\* longest affiliation list handed to the classification predicate
MaxAffs == 2
\* longest generated affiliation string
MaxStrLen == 3
\* most <Author> elements of a generated document
MaxAuthors == 2

(* Program constants. *)

DEFAULT_MAX_RETRIES == 3
DEFAULT_DELAY == 5
RETMAX == 5
TIMEOUT == 30

-----------------------------------------------------------------------------
(* Python str operations. *)

ASCII_UPPERCASE == <<"A", "B", "C", "D", "E", "F", "G", "H", "I", "J", "K", "L", "M",
                     "N", "O", "P", "Q", "R", "S", "T", "U", "V", "W", "X", "Y", "Z">>
ASCII_LOWERCASE == <<"a", "b", "c", "d", "e", "f", "g", "h", "i", "j", "k", "l", "m",
                     "n", "o", "p", "q", "r", "s", "t", "u", "v", "w", "x", "y", "z">>
WHITESPACE == {" ", "\t", "\n"}

\* a faulty lower(): leaves the string as it is
str_lower_identity(s) == s

\* s.lower()
str_lower(s) ==
    [i \in 1..Len(s) |->
        IF \E n \in 1..26 : ASCII_UPPERCASE[n] = s[i]
        THEN ASCII_LOWERCASE[CHOOSE n \in 1..26 : ASCII_UPPERCASE[n] = s[i]]
        ELSE s[i]]

\* k in s
str_contains(s, k) ==
    \E i \in 1..(Len(s) - Len(k) + 1) : SubSeq(s, i, i + Len(k) - 1) = k

RECURSIVE str_lstrip(_)
str_lstrip(s) ==
    IF s # <<>> /\ Head(s) \in WHITESPACE THEN str_lstrip(Tail(s)) ELSE s

RECURSIVE str_rstrip(_)
str_rstrip(s) ==
    IF s # <<>> /\ s[Len(s)] \in WHITESPACE
    THEN str_rstrip(SubSeq(s, 1, Len(s) - 1)) ELSE s

\* s.strip()
str_strip(s) == str_rstrip(str_lstrip(s))

\* sep.join(list)
RECURSIVE str_join(_, _)
str_join(sep, list) ==
    IF list = <<>> THEN <<>>
    ELSE IF Len(list) = 1 THEN Head(list)
    ELSE Head(list) \o sep \o str_join(sep, Tail(list))

\* a faulty d.get(k, default): the default is ignored and '' is given for a missing key
dict_get_empty_default(d, k, default) == IF k \in DOMAIN d THEN d[k] ELSE <<>>

\* d.get(k, default)
dict_get(d, k, default) == IF k \in DOMAIN d THEN d[k] ELSE default

\* {}
EmptyDict == [k \in {} |-> <<>>]

\* all sequences over S of length at most n
SeqsUpTo(S, n) == UNION {[1..m -> S] : m \in 0..n}

-----------------------------------------------------------------------------
(* is_non_academic_affiliation, lines 105-108. *)

\* a faulty keyword list: "inc" without its full stop
keywords_inc_without_stop == <<
    <<"p", "h", "a", "r", "m", "a">>,
    <<"b", "i", "o", "t", "e", "c", "h">>,
    <<"l", "a", "b", "o", "r", "a", "t", "o", "r", "i", "e", "s">>,
    <<"i", "n", "c">>,
    <<"c", "o", "r", "p", "o", "r", "a", "t", "i", "o", "n">>,
    <<"c", "o", "m", "p", "a", "n", "y">>,
    <<"l", "l", "c">>,
    <<"l", "t", "d">> >>

keywords == <<
    <<"p", "h", "a", "r", "m", "a">>,
    <<"b", "i", "o", "t", "e", "c", "h">>,
    <<"l", "a", "b", "o", "r", "a", "t", "o", "r", "i", "e", "s">>,
    <<"i", "n", "c", ".">>,
    <<"c", "o", "r", "p", "o", "r", "a", "t", "i", "o", "n">>,
    <<"c", "o", "m", "p", "a", "n", "y">>,
    <<"l", "l", "c">>,
    <<"l", "t", "d">> >>

\* a faulty predicate: every affiliation must match
is_non_academic_affiliation_all(affiliations) ==
    \A a \in 1..Len(affiliations) :
        \E k \in 1..Len(keywords) :
            str_contains(str_lower(affiliations[a]), keywords[k])

is_non_academic_affiliation(affiliations) ==
    \E a \in 1..Len(affiliations) :
        \E k \in 1..Len(keywords) :
            str_contains(str_lower(affiliations[a]), keywords[k])

-----------------------------------------------------------------------------
(* The world outside the program: queries typed in, HTTP outcomes, documents. *)

Inputs == { <<"q">>, <<" ", "q", " ">> }

Id1 == <<"1">>
Id2 == <<"2">>
Id111 == <<"1", "1", "1">>
Ids == {Id1, Id2, Id111}

\* identifier lists of a search response: identifiers are unique within a run
IdLists == {l \in SeqsUpTo(Ids, MaxIds) : \A i, j \in 1..Len(l) : l[i] = l[j] => i = j}

TitleT == <<"T">>
PubDate2020 == <<"2", "0", "2", "0">>

\* one entry of the summary result: title and pubdate are each optional
SummaryEntries ==
    { [title |-> TitleT, pubdate |-> PubDate2020], [pubdate |-> PubDate2020],
      [title |-> TitleT], EmptyDict }

\* the "result" object of a summary response: entries for any set of identifiers,
\* whether or not they were asked for
SummaryResults == UNION {{[id \in D |-> e] : e \in SummaryEntries} : D \in SUBSET Ids}

Digits == <<"1", "2", "3", "4", "5", "6", "7", "8", "9">>

\* an identifier list with one identifier more than retmax asks for
OverlongIdList == [i \in 1..(RETMAX + 1) |-> <<Digits[i]>>]

\* the JSON of a search response: the program takes the list as it comes
SearchBodies ==
    {EmptyDict, [esearchresult |-> EmptyDict]}
        \cup {[esearchresult |-> [idlist |-> l]] : l \in IdLists \cup {OverlongIdList}}

SummaryBodies == {EmptyDict} \cup {[result |-> r] : r \in SummaryResults}

JohnSmith == <<"J", "o", "h", "n", " ", "S", "m", "i", "t", "h">>
PfizerIncUSA == <<"P", "f", "i", "z", "e", "r", " ", "I", "n", "c", ",", " ", "U", "S", "A">>
PfizerIncDotUSA ==
    <<"P", "f", "i", "z", "e", "r", " ", "I", "n", "c", ".", ",", " ", "U", "S", "A">>
XYZCompanyHoldings == <<"X", "Y", "Z", " ", "C", "o", "m", "p", "a", "n", "y", " ",
                        "H", "o", "l", "d", "i", "n", "g", "s">>
MIT == <<"M", "I", "T">>

\* <Author> elements: each child list is in document order and may be empty
AuthorJohnSmithPfizer ==
    [ForeName |-> << <<"J", "o", "h", "n">> >>, LastName |-> << <<"S", "m", "i", "t", "h">> >>,
     Affiliation |-> <<PfizerIncUSA>>]
AuthorJohnSmithPfizerDot ==
    [ForeName |-> << <<"J", "o", "h", "n">> >>, LastName |-> << <<"S", "m", "i", "t", "h">> >>,
     Affiliation |-> <<PfizerIncDotUSA>>]
AuthorJohnOnly ==
    [ForeName |-> << <<"J", "o", "h", "n">> >>, LastName |-> <<>>, Affiliation |-> <<>>]
AuthorSmithXYZ ==
    [ForeName |-> <<>>, LastName |-> << <<"S", "m", "i", "t", "h">> >>,
     Affiliation |-> <<XYZCompanyHoldings, MIT>>]
\* efetch documents: the <Author> elements in document order, and the
\* <Affiliation> elements that follow the last of them
Docs ==
    { [Author |-> <<AuthorJohnSmithPfizer>>, following |-> <<>>],
      [Author |-> <<AuthorJohnSmithPfizerDot>>, following |-> <<>>],
      [Author |-> <<AuthorJohnOnly, AuthorSmithXYZ>>, following |-> <<>>] }

\* what makes requests.get or raise_for_status raise a RequestException
TransportErrors == {"ConnectionError", "Timeout"}
ErrorStatusCodes == {404, 503}
Failures == [exc : TransportErrors, status_code : {0}]
                \cup [exc : {""}, status_code : ErrorStatusCodes]

\* response.raise_for_status() raises
raise_for_status(status_code) == status_code >= 400 /\ status_code < 600

RequestException(o) == o.exc # "" \/ raise_for_status(o.status_code)

\* the requests of the run that ended in a RequestException
Raised(l) == {i \in 1..Len(l) : l[i].ev = "GET" /\ l[i].raised}

\* the network may fail the next request
MayFail == Cardinality(Raised(log)) < MaxFailures

-----------------------------------------------------------------------------
(* Calls and returns. *)

\* nothing has been returned yet
NoRet == [kind |-> "pending", value |-> <<>>]

\* where __main__ goes on when the function returns
ReturnSite(fn) ==
    CASE fn = "fetch_papers" -> "main_116"
      [] fn = "get_paper_details" -> "main_121"
      [] fn = "get_author_affiliations" -> "main_133"

\* fn(a, max_retries=n, delay=d) is entered
Call(fn, a, n, d) ==
    /\ pc' = fn
    /\ arg' = a
    /\ max_retries' = n
    /\ delay' = d
    /\ attempt' = 0

\* `return v` in fn; type is type(v).__name__
Return(fn, type, v) ==
    /\ ret' = [kind |-> type, value |-> v]
    /\ pc' = IF entry = "__main__" THEN ReturnSite(fn) ELSE "returned"

\* the function ends without a return statement
ReturnNone(fn) ==
    /\ ret' = [kind |-> "NoneType", value |-> <<>>]
    /\ pc' = IF entry = "__main__" THEN ReturnSite(fn) ELSE "returned"

\* requests.get(url, params=params, timeout=30) followed by raise_for_status():
\* raised tells whether the two ended in a RequestException
Get(url, params, raised) ==
    [ev |-> "GET", url |-> url, params |-> params, timeout |-> TIMEOUT, raised |-> raised]
Sleep(secs) == [ev |-> "sleep", secs |-> secs]

\* a request that did not raise, with what response.json() or response.content holds
Response(request, body) == request @@ [body |-> body]

\* a faulty except branch: the sleep grows with the number of failed attempts
Retry_backoff(request) ==
    /\ attempt < max_retries - 1
    /\ log' = log \o <<request, Sleep(delay * (attempt + 1))>>
    /\ attempt' = attempt + 1
    /\ UNCHANGED <<pc, ret>>

\* the except branch, lines 29-36, 55-62, 96-103: sleep and go round again
Retry(request) ==
    /\ attempt < max_retries - 1
    /\ log' = log \o <<request, Sleep(delay)>>
    /\ attempt' = attempt + 1
    /\ UNCHANGED <<pc, ret>>

-----------------------------------------------------------------------------
(* fetch_papers, lines 6-36. *)

fetch_papers_request(raised) ==
    Get("esearch.fcgi",
        [db |-> "pubmed", term |-> arg.query, retmode |-> "json", retmax |-> RETMAX], raised)

\* lines 19-27: the response arrives and carries the identifier list
fetch_papers_ok ==
    /\ pc = "fetch_papers"
    /\ attempt < max_retries
    /\ \E body \in SearchBodies :
         LET ids == dict_get(dict_get(body, "esearchresult", EmptyDict), "idlist", <<>>)
         IN  /\ log' = Append(log, Response(fetch_papers_request(FALSE), body))
             /\ IF Len(ids) = 0
                THEN Return("fetch_papers", "list", <<>>)
                ELSE Return("fetch_papers", "list", ids)
    /\ UNCHANGED <<entry, query, max_retries, delay, attempt, arg, paper_ids,
                   paper_data, idx, filtered_papers, csv>>

\* a faulty loop: every failure is followed by another attempt
fetch_papers_retry_unbounded ==
    /\ pc = "fetch_papers"
    /\ MayFail
    /\ log' = log \o <<fetch_papers_request(TRUE), Sleep(delay)>>
    /\ attempt' = attempt + 1
    /\ UNCHANGED <<entry, pc, ret, query, max_retries, delay, arg, paper_ids,
                   paper_data, idx, filtered_papers, csv>>

\* lines 29-33
fetch_papers_retry ==
    /\ pc = "fetch_papers"
    /\ attempt < max_retries
    /\ MayFail
    /\ \E o \in Failures : RequestException(o)
    /\ Retry(fetch_papers_request(TRUE))
    /\ UNCHANGED <<entry, query, max_retries, delay, arg, paper_ids,
                   paper_data, idx, filtered_papers, csv>>

\* lines 29-31, 34-36
fetch_papers_give_up ==
    /\ pc = "fetch_papers"
    /\ attempt < max_retries
    /\ MayFail
    /\ \E o \in Failures : RequestException(o)
    /\ ~(attempt < max_retries - 1)
    /\ log' = Append(log, fetch_papers_request(TRUE))
    /\ Return("fetch_papers", "list", <<>>)
    /\ UNCHANGED <<entry, query, max_retries, delay, attempt, arg, paper_ids,
                   paper_data, idx, filtered_papers, csv>>

\* line 16 with range(max_retries) exhausted: the function body ends
fetch_papers_fall_through ==
    /\ pc = "fetch_papers"
    /\ ~(attempt < max_retries)
    /\ ReturnNone("fetch_papers")
    /\ UNCHANGED <<entry, query, max_retries, delay, attempt, arg, paper_ids,
                   paper_data, idx, filtered_papers, csv, log>>

-----------------------------------------------------------------------------
(* get_paper_details, lines 38-62. *)

Comma == <<",">>

\* a faulty line 43: only the first identifier is asked for
get_paper_details_request_first_id(raised) ==
    Get("esummary.fcgi",
        [db |-> "pubmed", id |-> IF arg.paper_ids = <<>> THEN <<>> ELSE arg.paper_ids[1], retmode |-> "json"],
        raised)

get_paper_details_request(raised) ==
    Get("esummary.fcgi",
        [db |-> "pubmed", id |-> str_join(Comma, arg.paper_ids), retmode |-> "json"], raised)

\* lines 50-53
get_paper_details_ok ==
    /\ pc = "get_paper_details"
    /\ attempt < max_retries
    /\ \E body \in SummaryBodies :
         /\ log' = Append(log, Response(get_paper_details_request(FALSE), body))
         /\ Return("get_paper_details", "dict", dict_get(body, "result", EmptyDict))
    /\ UNCHANGED <<entry, query, max_retries, delay, attempt, arg, paper_ids,
                   paper_data, idx, filtered_papers, csv>>

\* lines 55-59
get_paper_details_retry ==
    /\ pc = "get_paper_details"
    /\ attempt < max_retries
    /\ MayFail
    /\ \E o \in Failures : RequestException(o)
    /\ Retry(get_paper_details_request(TRUE))
    /\ UNCHANGED <<entry, query, max_retries, delay, arg, paper_ids,
                   paper_data, idx, filtered_papers, csv>>

\* lines 55-57, 60-62
get_paper_details_give_up ==
    /\ pc = "get_paper_details"
    /\ attempt < max_retries
    /\ MayFail
    /\ \E o \in Failures : RequestException(o)
    /\ ~(attempt < max_retries - 1)
    /\ log' = Append(log, get_paper_details_request(TRUE))
    /\ Return("get_paper_details", "dict", EmptyDict)
    /\ UNCHANGED <<entry, query, max_retries, delay, attempt, arg, paper_ids,
                   paper_data, idx, filtered_papers, csv>>

\* line 47 with range(max_retries) exhausted
get_paper_details_fall_through ==
    /\ pc = "get_paper_details"
    /\ ~(attempt < max_retries)
    /\ ReturnNone("get_paper_details")
    /\ UNCHANGED <<entry, query, max_retries, delay, attempt, arg, paper_ids,
                   paper_data, idx, filtered_papers, csv, log>>

-----------------------------------------------------------------------------
(* get_author_affiliations, lines 64-103. *)

get_author_affiliations_request(raised) ==
    Get("efetch.fcgi", [db |-> "pubmed", id |-> arg.paper_id, retmode |-> "xml"], raised)

\* element.text of the first child found, '' when find() gave None
text_or_empty(found) == IF found = <<>> THEN <<>> ELSE found[1]

\* line 88
author_name(author) ==
    str_strip(text_or_empty(author.ForeName) \o <<" ">> \o text_or_empty(author.LastName))

\* the <Affiliation> elements after the start of the i-th <Author>, in document order
RECURSIVE AffiliationsFrom(_, _)
AffiliationsFrom(doc, i) ==
    IF i > Len(doc.Author) THEN doc.following
    ELSE doc.Author[i].Affiliation \o AffiliationsFrom(doc, i + 1)

\* a faulty line 86, author.find("Affiliation"): only the author's own elements
find_Affiliation(doc, i) ==
    IF doc.Author[i].Affiliation = <<>> THEN <<>> ELSE <<Head(doc.Author[i].Affiliation)>>

\* author.find_next("Affiliation"), line 86: <<>> stands for None
find_next_Affiliation(doc, i) ==
    IF AffiliationsFrom(doc, i) = <<>> THEN <<>> ELSE <<Head(AffiliationsFrom(doc, i))>>

\* lines 83-92, the affiliations list after the authors from i on are visited
RECURSIVE collect_affiliations(_, _)
collect_affiliations(doc, i) ==
    IF i > Len(doc.Author) THEN <<>>
    ELSE find_next_Affiliation(doc, i) \o collect_affiliations(doc, i + 1)

\* lines 79-94: the pair returned for a document
parse_document(doc) ==
    << [i \in 1..Len(doc.Author) |-> author_name(doc.Author[i])],
       collect_affiliations(doc, 1) >>

\* lines 76-94
get_author_affiliations_ok ==
    /\ pc = "get_author_affiliations"
    /\ attempt < max_retries
    /\ \E doc \in Docs :
         /\ log' = Append(log, Response(get_author_affiliations_request(FALSE), doc))
         /\ Return("get_author_affiliations", "tuple", parse_document(doc))
    /\ UNCHANGED <<entry, query, max_retries, delay, attempt, arg, paper_ids,
                   paper_data, idx, filtered_papers, csv>>

\* lines 96-100
get_author_affiliations_retry ==
    /\ pc = "get_author_affiliations"
    /\ attempt < max_retries
    /\ MayFail
    /\ \E o \in Failures : RequestException(o)
    /\ Retry(get_author_affiliations_request(TRUE))
    /\ UNCHANGED <<entry, query, max_retries, delay, arg, paper_ids,
                   paper_data, idx, filtered_papers, csv>>

\* a faulty except branch: the last failure is raised again
get_author_affiliations_give_up_raises ==
    /\ pc = "get_author_affiliations"
    /\ attempt < max_retries
    /\ MayFail
    /\ ~(attempt < max_retries - 1)
    /\ log' = Append(log, get_author_affiliations_request(TRUE))
    /\ ret' = [kind |-> "RequestException", value |-> <<>>]
    /\ pc' = "raised"
    /\ UNCHANGED <<entry, query, max_retries, delay, attempt, arg, paper_ids,
                   paper_data, idx, filtered_papers, csv>>

\* lines 96-98, 101-103
get_author_affiliations_give_up ==
    /\ pc = "get_author_affiliations"
    /\ attempt < max_retries
    /\ MayFail
    /\ \E o \in Failures : RequestException(o)
    /\ ~(attempt < max_retries - 1)
    /\ log' = Append(log, get_author_affiliations_request(TRUE))
    /\ Return("get_author_affiliations", "tuple", << <<>>, <<>> >>)
    /\ UNCHANGED <<entry, query, max_retries, delay, attempt, arg, paper_ids,
                   paper_data, idx, filtered_papers, csv>>

\* line 73 with range(max_retries) exhausted
get_author_affiliations_fall_through ==
    /\ pc = "get_author_affiliations"
    /\ ~(attempt < max_retries)
    /\ ReturnNone("get_author_affiliations")
    /\ UNCHANGED <<entry, query, max_retries, delay, attempt, arg, paper_ids,
                   paper_data, idx, filtered_papers, csv, log>>

-----------------------------------------------------------------------------
(* __main__, lines 110-147. *)

\* bool(v) of a returned list, dict or None
truthy(r) ==
    CASE r.kind = "list" -> Len(r.value) # 0
      [] r.kind = "dict" -> DOMAIN r.value # {}
      [] OTHER -> FALSE

NoTitleAvailable == <<"N", "o", " ", "T", "i", "t", "l", "e", " ",
                      "A", "v", "a", "i", "l", "a", "b", "l", "e">>
NoDateAvailable == <<"N", "o", " ", "D", "a", "t", "e", " ",
                     "A", "v", "a", "i", "l", "a", "b", "l", "e">>
SemicolonSpace == <<";", " ">>

COLUMNS == <<"Paper ID", "Title", "Publication Date", "Authors", "Affiliations">>

\* the dict of lines 134-140
Row(paper_id, title, pub_date, authors, affiliations) ==
    ("Paper ID" :> paper_id) @@ ("Title" :> title) @@ ("Publication Date" :> pub_date)
        @@ ("Authors" :> str_join(SemicolonSpace, authors))
        @@ ("Affiliations" :> str_join(SemicolonSpace, affiliations))

NoFile == [exists |-> FALSE, header |-> <<>>, rows |-> <<>>]

\* pd.DataFrame(rows).to_csv(..., index=False), lines 143-144: a header line, then
\* one line per row with the cells in column order
to_csv(rows) ==
    [exists |-> TRUE,
     header |-> COLUMNS,
     rows |-> [i \in 1..Len(rows) |-> [c \in 1..Len(COLUMNS) |-> rows[i][COLUMNS[c]]]]]

\* lines 111-115
main_input ==
    /\ pc = "main_112"
    /\ \E raw \in Inputs :
         /\ query' = str_strip(raw)
         /\ Call("fetch_papers", [query |-> str_strip(raw)], DEFAULT_MAX_RETRIES, DEFAULT_DELAY)
    /\ UNCHANGED <<entry, ret, paper_ids, paper_data, idx, filtered_papers, csv, log>>

\* a faulty line 116-118: no exit(), the run goes on to the summary stage
main_no_papers_goes_on ==
    /\ pc = "main_116"
    /\ ~truthy(ret)
    /\ paper_ids' = ret.value
    /\ Call("get_paper_details", [paper_ids |-> ret.value], DEFAULT_MAX_RETRIES, DEFAULT_DELAY)
    /\ UNCHANGED <<entry, ret, query, paper_data, idx, filtered_papers, csv, log>>

\* lines 115-118: nothing found, exit()
main_no_papers ==
    /\ pc = "main_116"
    /\ ~truthy(ret)
    /\ paper_ids' = ret.value
    /\ pc' = "exit_118"
    /\ UNCHANGED <<entry, ret, query, max_retries, delay, attempt, arg, paper_data, idx,
                   filtered_papers, csv, log>>

\* lines 115-116, 120
main_call_get_paper_details ==
    /\ pc = "main_116"
    /\ truthy(ret)
    /\ paper_ids' = ret.value
    /\ Call("get_paper_details", [paper_ids |-> ret.value], DEFAULT_MAX_RETRIES, DEFAULT_DELAY)
    /\ UNCHANGED <<entry, ret, query, paper_data, idx, filtered_papers, csv, log>>

\* a faulty line 121-123: no exit(), the run goes on to the loop
main_no_details_goes_on ==
    /\ pc = "main_121"
    /\ ~truthy(ret)
    /\ paper_data' = ret.value
    /\ filtered_papers' = <<>>
    /\ idx' = 1
    /\ pc' = "main_126"
    /\ UNCHANGED <<entry, ret, query, max_retries, delay, attempt, arg, paper_ids, csv, log>>

\* lines 120-123: no details, exit()
main_no_details ==
    /\ pc = "main_121"
    /\ ~truthy(ret)
    /\ paper_data' = ret.value
    /\ pc' = "exit_123"
    /\ UNCHANGED <<entry, ret, query, max_retries, delay, attempt, arg, paper_ids, idx,
                   filtered_papers, csv, log>>

\* lines 120-121, 125
main_start_loop ==
    /\ pc = "main_121"
    /\ truthy(ret)
    /\ paper_data' = ret.value
    /\ filtered_papers' = <<>>
    /\ idx' = 1
    /\ pc' = "main_126"
    /\ UNCHANGED <<entry, ret, query, max_retries, delay, attempt, arg, paper_ids, csv, log>>

\* a faulty line 127: an identifier without an entry ends the loop
main_skip_breaks ==
    /\ pc = "main_126"
    /\ idx <= Len(paper_ids)
    /\ paper_ids[idx] \notin DOMAIN paper_data
    /\ idx' = Len(paper_ids) + 1
    /\ UNCHANGED <<entry, pc, query, max_retries, delay, attempt, arg, ret, paper_ids,
                   paper_data, filtered_papers, csv, log>>

\* lines 126-127: the identifier has no entry in paper_data
main_skip ==
    /\ pc = "main_126"
    /\ idx <= Len(paper_ids)
    /\ paper_ids[idx] \notin DOMAIN paper_data
    /\ idx' = idx + 1
    /\ UNCHANGED <<entry, pc, query, max_retries, delay, attempt, arg, ret, paper_ids,
                   paper_data, filtered_papers, csv, log>>

\* lines 126-131
main_call_get_author_affiliations ==
    /\ pc = "main_126"
    /\ idx <= Len(paper_ids)
    /\ paper_ids[idx] \in DOMAIN paper_data
    /\ Call("get_author_affiliations", [paper_id |-> paper_ids[idx]],
            DEFAULT_MAX_RETRIES, DEFAULT_DELAY)
    /\ UNCHANGED <<entry, query, ret, paper_ids, paper_data, idx, filtered_papers,
                   csv, log>>

\* a faulty loop: the same identifier is taken again after each paper
main_classify_same_paper ==
    /\ pc = "main_133"
    /\ filtered_papers' =
           IF is_non_academic_affiliation(ret.value[2])
           THEN Append(filtered_papers,
                       Row(paper_ids[idx], dict_get(paper_data[paper_ids[idx]], "title",
                                                    NoTitleAvailable),
                           dict_get(paper_data[paper_ids[idx]], "pubdate", NoDateAvailable),
                           ret.value[1], ret.value[2]))
           ELSE filtered_papers
    /\ pc' = "main_126"
    /\ UNCHANGED <<entry, ret, query, max_retries, delay, attempt, arg, paper_ids,
                   paper_data, idx, csv, log>>

\* a faulty line 133: a paper without affiliations ends the run
main_classify_halts_on_empty ==
    /\ pc = "main_133"
    /\ filtered_papers' =
           IF is_non_academic_affiliation(ret.value[2])
           THEN Append(filtered_papers,
                       Row(paper_ids[idx], dict_get(paper_data[paper_ids[idx]], "title",
                                                    NoTitleAvailable),
                           dict_get(paper_data[paper_ids[idx]], "pubdate", NoDateAvailable),
                           ret.value[1], ret.value[2]))
           ELSE filtered_papers
    /\ idx' = IF ret.value[2] = <<>> THEN idx ELSE idx + 1
    /\ pc' = IF ret.value[2] = <<>> THEN "done" ELSE "main_126"
    /\ UNCHANGED <<entry, ret, query, max_retries, delay, attempt, arg, paper_ids,
                   paper_data, csv, log>>

\* lines 128-140, after get_author_affiliations has returned
main_classify ==
    /\ pc = "main_133"
    /\ LET paper_id == paper_ids[idx]
           title == dict_get(paper_data[paper_id], "title", NoTitleAvailable)
           pub_date == dict_get(paper_data[paper_id], "pubdate", NoDateAvailable)
           authors == ret.value[1]
           affiliations == ret.value[2]
       IN  filtered_papers' =
               IF is_non_academic_affiliation(affiliations)
               THEN Append(filtered_papers,
                           Row(paper_id, title, pub_date, authors, affiliations))
               ELSE filtered_papers
    /\ idx' = idx + 1
    /\ pc' = "main_126"
    /\ UNCHANGED <<entry, ret, query, max_retries, delay, attempt, arg, paper_ids,
                   paper_data, csv, log>>

\* lines 142-145
main_to_csv ==
    /\ pc = "main_126"
    /\ idx > Len(paper_ids)
    /\ filtered_papers # <<>>
    /\ csv' = to_csv(filtered_papers)
    /\ log' = Append(log, [ev |-> "to_csv"])
    /\ pc' = "done"
    /\ UNCHANGED <<entry, query, max_retries, delay, attempt, arg, ret, paper_ids,
                   paper_data, idx, filtered_papers>>

\* a faulty line 142: the file is written even without rows
main_no_results_writes ==
    /\ pc = "main_126"
    /\ idx > Len(paper_ids)
    /\ filtered_papers = <<>>
    /\ csv' = to_csv(filtered_papers)
    /\ log' = Append(log, [ev |-> "to_csv"])
    /\ pc' = "done"
    /\ UNCHANGED <<entry, query, max_retries, delay, attempt, arg, ret, paper_ids,
                   paper_data, idx, filtered_papers>>

\* lines 142, 146-147
main_no_results ==
    /\ pc = "main_126"
    /\ idx > Len(paper_ids)
    /\ filtered_papers = <<>>
    /\ pc' = "done"
    /\ UNCHANGED <<entry, query, max_retries, delay, attempt, arg, ret, paper_ids,
                   paper_data, idx, filtered_papers, csv, log>>

-----------------------------------------------------------------------------
(* The script run from the command line. *)

Init ==
    /\ entry = "__main__"
    /\ pc = "main_112"
    /\ query = <<>>
    /\ max_retries = DEFAULT_MAX_RETRIES
    /\ delay = DEFAULT_DELAY
    /\ attempt = 0
    /\ arg = EmptyDict
    /\ ret = NoRet
    /\ paper_ids = <<>>
    /\ paper_data = EmptyDict
    /\ idx = 1
    /\ filtered_papers = <<>>
    /\ csv = NoFile
    /\ log = <<>>

Next ==
    \/ main_input
    \/ fetch_papers_ok
    \/ fetch_papers_retry
    \/ fetch_papers_give_up
    \/ main_no_papers
    \/ main_call_get_paper_details
    \/ get_paper_details_ok
    \/ get_paper_details_retry
    \/ get_paper_details_give_up
    \/ main_no_details
    \/ main_start_loop
    \/ main_skip
    \/ main_call_get_author_affiliations
    \/ get_author_affiliations_ok
    \/ get_author_affiliations_retry
    \/ get_author_affiliations_give_up
    \/ main_classify
    \/ main_to_csv
    \/ main_no_results

Spec == Init /\ [][Next]_vars

\* where the script stands: every step moves pc, attempt or idx
position == <<pc, attempt, idx>>

\* every step of the script but main_classify
NextButClassify ==
    \/ main_input
    \/ fetch_papers_ok
    \/ fetch_papers_retry
    \/ fetch_papers_give_up
    \/ main_no_papers
    \/ main_call_get_paper_details
    \/ get_paper_details_ok
    \/ get_paper_details_retry
    \/ get_paper_details_give_up
    \/ main_no_details
    \/ main_start_loop
    \/ main_skip
    \/ main_call_get_author_affiliations
    \/ get_author_affiliations_ok
    \/ get_author_affiliations_retry
    \/ get_author_affiliations_give_up
    \/ main_to_csv
    \/ main_no_results

\* lines 133-140 are done: control is back at the head of the loop, line 126
main_classified == pc = "main_133" /\ pc' = "main_126"

\* the script is one thread: input() returns, every request returns or raises within
\* its timeout and every sleep ends, so a step that can be taken is taken; for
\* main_classify this is said of its move from line 133 to line 126
SpecFair == Spec /\ WF_position(NextButClassify) /\ WF_pc(main_classified)

-----------------------------------------------------------------------------
(* One stage function called directly, with max_retries and delay given. *)

StageFunctions == {"fetch_papers", "get_paper_details", "get_author_affiliations"}

StageArgs(fn) ==
    CASE fn = "fetch_papers" -> {[query |-> str_strip(raw)] : raw \in Inputs}
      [] fn = "get_paper_details" -> {[paper_ids |-> l] : l \in IdLists}
      [] fn = "get_author_affiliations" -> {[paper_id |-> id] : id \in Ids}

Delays == {0, DEFAULT_DELAY}

InitStage ==
    /\ entry \in StageFunctions
    /\ pc = entry
    /\ query = <<>>
    /\ max_retries \in 0..MaxRetriesArg
    /\ delay \in Delays
    /\ attempt = 0
    /\ arg \in StageArgs(entry)
    /\ ret = NoRet
    /\ paper_ids = <<>>
    /\ paper_data = EmptyDict
    /\ idx = 1
    /\ filtered_papers = <<>>
    /\ csv = NoFile
    /\ log = <<>>

NextStage ==
    \/ fetch_papers_ok
    \/ fetch_papers_retry
    \/ fetch_papers_give_up
    \/ fetch_papers_fall_through
    \/ get_paper_details_ok
    \/ get_paper_details_retry
    \/ get_paper_details_give_up
    \/ get_paper_details_fall_through
    \/ get_author_affiliations_ok
    \/ get_author_affiliations_retry
    \/ get_author_affiliations_give_up
    \/ get_author_affiliations_fall_through

SpecStage == InitStage /\ [][NextStage]_vars

-----------------------------------------------------------------------------
(* is_non_academic_affiliation called directly. *)

PharmaInc == <<"P", "h", "a", "r", "m", "a", " ", "I", "n", "c">>
PHARMA_INC == <<"P", "H", "A", "R", "M", "A", " ", "I", "N", "C">>
AppendLtd == <<"A", "p", "p", "e", "n", "d", "L", "t", "d">>

AffExamples ==
    {PharmaInc, PHARMA_INC, XYZCompanyHoldings, AppendLtd, PfizerIncUSA,
     PfizerIncDotUSA, MIT, <<>>}

\* the characters of the generated affiliation strings
AffAlphabet == {"l", "L", "t", "D", "c"}

AffLists ==
    SeqsUpTo(AffExamples, MaxAffs)
        \cup {<<s>> : s \in SeqsUpTo(AffAlphabet, MaxStrLen)}
        \cup {<<MIT, s>> : s \in SeqsUpTo(AffAlphabet, MaxStrLen)}

InitClassify ==
    /\ entry = "is_non_academic_affiliation"
    /\ pc = entry
    /\ query = <<>>
    /\ max_retries = DEFAULT_MAX_RETRIES
    /\ delay = DEFAULT_DELAY
    /\ attempt = 0
    /\ arg \in {[affiliations |-> l] : l \in AffLists}
    /\ ret = NoRet
    /\ paper_ids = <<>>
    /\ paper_data = EmptyDict
    /\ idx = 1
    /\ filtered_papers = <<>>
    /\ csv = NoFile
    /\ log = <<>>

\* lines 105-108
is_non_academic_affiliation_call ==
    /\ pc = "is_non_academic_affiliation"
    /\ ret' = [kind |-> "bool", value |-> is_non_academic_affiliation(arg.affiliations)]
    /\ pc' = "returned"
    /\ UNCHANGED <<entry, query, max_retries, delay, attempt, arg, paper_ids,
                   paper_data, idx, filtered_papers, csv, log>>

NextClassify == is_non_academic_affiliation_call

SpecClassify == InitClassify /\ [][NextClassify]_vars

-----------------------------------------------------------------------------
(* Lines 79-94 applied to a document. *)

AuthorAnonymous == [ForeName |-> <<>>, LastName |-> <<>>, Affiliation |-> <<>>]

AuthorElements ==
    {AuthorJohnSmithPfizer, AuthorJohnSmithPfizerDot, AuthorJohnOnly, AuthorSmithXYZ,
     AuthorAnonymous}

\* documents of up to MaxAuthors authors, with or without an <Affiliation> after them
ParseDocs ==
    {[Author |-> a, following |-> f] :
        a \in SeqsUpTo(AuthorElements, MaxAuthors), f \in {<<>>, <<MIT>>}}

InitParse ==
    /\ entry = "parse_document"
    /\ pc = entry
    /\ query = <<>>
    /\ max_retries = DEFAULT_MAX_RETRIES
    /\ delay = DEFAULT_DELAY
    /\ attempt = 0
    /\ arg \in {[soup |-> doc] : doc \in ParseDocs}
    /\ ret = NoRet
    /\ paper_ids = <<>>
    /\ paper_data = EmptyDict
    /\ idx = 1
    /\ filtered_papers = <<>>
    /\ csv = NoFile
    /\ log = <<>>

\* lines 79-94
parse_document_call ==
    /\ pc = "parse_document"
    /\ ret' = [kind |-> "tuple", value |-> parse_document(arg.soup)]
    /\ pc' = "returned"
    /\ UNCHANGED <<entry, query, max_retries, delay, attempt, arg, paper_ids,
                   paper_data, idx, filtered_papers, csv, log>>

NextParse == parse_document_call

SpecParse == InitParse /\ [][NextParse]_vars

-----------------------------------------------------------------------------
(* Properties. *)

\* c and d are the same character or the two cases of one letter
SameLetter(c, d) ==
    \/ c = d
    \/ \E n \in 1..26 : {c, d} = {ASCII_UPPERCASE[n], ASCII_LOWERCASE[n]}

\* keyword k occurs in s at offset o, letter case ignored
OccursAt(s, k, o) ==
    /\ o + Len(k) <= Len(s)
    /\ \A j \in 1..Len(k) : SameLetter(s[o + j], k[j])

\* some affiliation holds some keyword somewhere, letter case ignored
SomeKeywordOccurs(affs) ==
    \E a \in 1..Len(affs) : \E k \in 1..Len(keywords) :
        \E o \in 0..Len(affs[a]) : OccursAt(affs[a], keywords[k], o)

\* every letter of s in its other case
SwapCase(s) ==
    [i \in 1..Len(s) |->
        IF \E n \in 1..26 : ASCII_UPPERCASE[n] = s[i]
        THEN ASCII_LOWERCASE[CHOOSE n \in 1..26 : ASCII_UPPERCASE[n] = s[i]]
        ELSE IF \E n \in 1..26 : ASCII_LOWERCASE[n] = s[i]
        THEN ASCII_UPPERCASE[CHOOSE n \in 1..26 : ASCII_LOWERCASE[n] = s[i]]
        ELSE s[i]]

\* C7: is_non_academic_affiliation(affiliations) is true exactly when some affiliation,
\* lowercased, contains one of the eight keywords as a substring; so it is false for
\* the empty list, unchanged when the letter case of the affiliations changes ("Pharma
\* Inc" and "PHARMA INC" agree), and true for "XYZ Company Holdings" and "AppendLtd".
C7_ClassifyIffKeywordSubstring ==
    (entry = "is_non_academic_affiliation" /\ pc = "returned") =>
        LET affiliations == arg.affiliations
        IN  /\ ret.kind = "bool"
            /\ ret.value = SomeKeywordOccurs(affiliations)
            /\ affiliations = <<>> => ret.value = FALSE
            /\ ret.value = is_non_academic_affiliation(
                   [i \in 1..Len(affiliations) |-> SwapCase(affiliations[i])])
            /\ affiliations = <<PharmaInc>> =>
                   ret.value = is_non_academic_affiliation(<<PHARMA_INC>>)
            /\ affiliations = <<XYZCompanyHoldings>> => ret.value = TRUE
            /\ affiliations = <<AppendLtd>> => ret.value = TRUE

\* an upper-case "LtD" in the second affiliation of two has been classified
C7_Witness ==
    /\ entry = "is_non_academic_affiliation"
    /\ pc = "returned"
    /\ arg.affiliations = <<MIT, <<"L", "t", "D">> >>
    /\ ret.value = TRUE

-----------------------------------------------------------------------------
(* Properties of one stage call. *)

\* the positions in l of the HTTP requests
Gets(l) == {i \in 1..Len(l) : l[i].ev = "GET"}

\* the empty result of each stage function
EmptyResult(fn) ==
    CASE fn = "fetch_papers" -> [kind |-> "list", value |-> <<>>]
      [] fn = "get_paper_details" -> [kind |-> "dict", value |-> EmptyDict]
      [] fn = "get_author_affiliations" -> [kind |-> "tuple", value |-> << <<>>, <<>> >>]

\* C1: a stage function called with max_retries = N >= 1 issues at most N requests;
\* a request is followed by another only if it failed, so the first response that
\* arrives, even one without identifiers, ends the call, and nothing is requested
\* once the call has returned.
C1_AtMostNAttempts ==
    (entry \in StageFunctions /\ max_retries >= 1) =>
        /\ Cardinality(Gets(log)) <= max_retries
        /\ \A i, j \in Gets(log) : i < j => log[i].raised
        /\ (\E i \in Gets(log) : ~log[i].raised) =>
               (pc = "returned" /\ ret.kind \in {"list", "dict", "tuple"})
        /\ pc = "returned" => ~ENABLED NextStage

\* fetch_papers(max_retries=3) failed once, then got a response without identifiers
C1_Witness ==
    /\ entry = "fetch_papers"
    /\ max_retries = 3
    /\ pc = "returned"
    /\ Cardinality(Gets(log)) = 2
    /\ \E i \in Gets(log) : ~log[i].raised
    /\ ret.value = <<>>

\* C2: when every attempt of a stage call fails (max_retries >= 1) the call returns
\* its empty result: an empty list, an empty dict, a pair of empty lists; the call is
\* over once max_retries requests have failed, and nothing is raised to the caller.
C2_FailSoft ==
    (entry \in StageFunctions /\ max_retries >= 1) =>
        /\ pc \in StageFunctions \cup {"returned"}
        /\ Cardinality(Raised(log)) >= max_retries => pc = "returned"
        /\ (pc = "returned" /\ \A i \in Gets(log) : log[i].raised) =>
               ret = EmptyResult(entry)

\* get_author_affiliations(max_retries=3) returned after three failed requests
C2_Witness ==
    /\ entry = "get_author_affiliations"
    /\ max_retries = 3
    /\ pc = "returned"
    /\ Cardinality(Raised(log)) = 3
    /\ ret = EmptyResult("get_author_affiliations")

-----------------------------------------------------------------------------
(* Properties of the pipeline. *)

\* the positions in l of the requests sent to url
GetsTo(l, url) == {i \in Gets(l) : l[i].url = url}

\* C3: when the search stage yields no identifier (an empty identifier list in the
\* response, or all attempts failed) the run halts there: no summary request and no
\* detail request is ever issued and the output file is never written.
C3_NoIdentifiersHalts ==
    /\ [][(entry = "__main__" /\ pc = "main_116" /\ ~truthy(ret)) => pc' = "exit_118"]_vars
    /\ [][pc # "exit_118"]_vars
    /\ [](pc = "exit_118" =>
            /\ paper_ids = <<>>
            /\ GetsTo(log, "esummary.fcgi") = {}
            /\ GetsTo(log, "efetch.fcgi") = {}
            /\ ~csv.exists)

\* the run has halted after one failed search request and one empty response
C3_Witness ==
    /\ entry = "__main__"
    /\ pc = "exit_118"
    /\ Cardinality(Gets(log)) = 2
    /\ Cardinality(Raised(log)) = 1

\* C4: when the summary stage yields an empty mapping (an empty or missing result,
\* or all attempts failed) the run halts there: no detail request is ever issued and
\* the output file is never written.
C4_NoSummariesHalts ==
    /\ [][(entry = "__main__" /\ pc = "main_121" /\ ~truthy(ret)) => pc' = "exit_123"]_vars
    /\ [][pc # "exit_123"]_vars
    /\ [](pc = "exit_123" =>
            /\ DOMAIN paper_data = {}
            /\ GetsTo(log, "efetch.fcgi") = {}
            /\ ~csv.exists)

\* the run has halted after the summary stage failed three times
C4_Witness ==
    /\ entry = "__main__"
    /\ pc = "exit_123"
    /\ Cardinality(GetsTo(log, "esummary.fcgi")) = 3
    /\ Cardinality(Raised(log)) = 3


\* where the i-th element of l starts in l joined with sep
RECURSIVE OffsetOf(_, _, _)
OffsetOf(l, sep, i) ==
    IF i = 1 THEN 0 ELSE OffsetOf(l, sep, i - 1) + Len(l[i - 1]) + Len(sep)

\* s is the elements of l in order with sep between neighbours
IsJoined(s, sep, l) ==
    IF l = <<>> THEN s = <<>>
    ELSE /\ Len(s) = OffsetOf(l, sep, Len(l)) + Len(l[Len(l)])
         /\ \A i \in 1..Len(l) :
                SubSeq(s, OffsetOf(l, sep, i) + 1, OffsetOf(l, sep, i) + Len(l[i])) = l[i]
         /\ \A i \in 1..(Len(l) - 1) :
                SubSeq(s, OffsetOf(l, sep, i) + Len(l[i]) + 1, OffsetOf(l, sep, i + 1)) = sep

\* C5: every accumulated row has an identifier of the search result that is a key of
\* the summary mapping; a row is added only right after get_author_affiliations has
\* returned for that same identifier, only if a keyword occurs in the affiliations it
\* returned, and its Authors and Affiliations are those lists joined with "; ".
C5_RowsComeFromOwnPaper ==
    /\ [](entry = "__main__" =>
            \A r \in 1..Len(filtered_papers) :
                /\ \E i \in 1..Len(paper_ids) : paper_ids[i] = filtered_papers[r]["Paper ID"]
                /\ filtered_papers[r]["Paper ID"] \in DOMAIN paper_data)
    /\ [][filtered_papers' # filtered_papers =>
            /\ pc = "main_133"
            /\ arg.paper_id = paper_ids[idx]
            /\ log[Len(log)].ev = "GET"
            /\ log[Len(log)].url = "efetch.fcgi"
            /\ log[Len(log)].params.id = paper_ids[idx]
            /\ ret.kind = "tuple"
            /\ SomeKeywordOccurs(ret.value[2])
            /\ Len(filtered_papers') = Len(filtered_papers) + 1
            /\ SubSeq(filtered_papers', 1, Len(filtered_papers)) = filtered_papers
            /\ LET row == filtered_papers'[Len(filtered_papers')]
               IN  /\ row["Paper ID"] = paper_ids[idx]
                   /\ IsJoined(row["Authors"], SemicolonSpace, ret.value[1])
                   /\ IsJoined(row["Affiliations"], SemicolonSpace, ret.value[2])]_vars

\* two rows have been accumulated, the second with two authors
C5_Witness ==
    /\ entry = "__main__"
    /\ Len(filtered_papers) = 2
    /\ filtered_papers[2]["Authors"] =
           <<"J", "o", "h", "n", ";", " ", "S", "m", "i", "t", "h">>

\* the identifiers the detail requests of l ask for, in order, a run of requests for
\* one identifier counted once
RECURSIVE DetailCalls(_)
DetailCalls(l) ==
    IF l = <<>> THEN <<>>
    ELSE LET rest == DetailCalls(SubSeq(l, 1, Len(l) - 1))
             e == l[Len(l)]
         IN  IF /\ e.ev = "GET"
                /\ e.url = "efetch.fcgi"
                /\ (rest = <<>> \/ rest[Len(rest)] # e.params.id)
             THEN Append(rest, e.params.id)
             ELSE rest

InPaperData(id) == id \in DOMAIN paper_data

\* how many identifiers of paper_ids the loop has dealt with or asked for
Visited ==
    CASE pc \in {"main_126", "done"} -> idx - 1
      [] pc = "main_133" -> idx
      [] pc = "get_author_affiliations" -> IF attempt = 0 THEN idx - 1 ELSE idx
      [] OTHER -> 0

\* position of id in paper_ids
PositionOf(id) == CHOOSE i \in 1..Len(paper_ids) : paper_ids[i] = id

\* C6: the identifiers are visited in search order; the detail stage is called once
\* for each visited identifier that is a key of the summary mapping and for no other;
\* an identifier without an entry is passed over and the loop goes on to the end of
\* the list; the rows are in search order.
C6_OneDetailCallPerSummarisedId ==
    entry = "__main__" =>
        /\ Visited <= Len(paper_ids)
        /\ DetailCalls(log) = SelectSeq(SubSeq(paper_ids, 1, Visited), InPaperData)
        /\ \A i, j \in GetsTo(log, "efetch.fcgi") :
               (i < j /\ log[i].params.id = log[j].params.id) => log[i].raised
        /\ pc = "done" => idx = Len(paper_ids) + 1
        /\ \A r \in 1..Len(filtered_papers) :
               /\ PositionOf(filtered_papers[r]["Paper ID"]) <= Visited
               /\ \A q \in 1..(r - 1) :
                      PositionOf(filtered_papers[q]["Paper ID"])
                          < PositionOf(filtered_papers[r]["Paper ID"])

\* of two identifiers the first had no summary entry and the second was fetched
C6_Witness ==
    /\ entry = "__main__"
    /\ pc = "done"
    /\ paper_ids = <<Id1, Id2>>
    /\ DOMAIN paper_data = {Id2, Id111}
    /\ DetailCalls(log) = <<Id2>>
    /\ Len(filtered_papers) = 1


\* the run of the end-to-end example: search gave ["111"], the summary mapping is
\* {"111": {title: "T", pubdate: "2020"}} and the detail stage gave affiliations
EndToEnd(affiliations) ==
    /\ entry = "__main__"
    /\ pc = "done"
    /\ paper_ids = <<Id111>>
    /\ paper_data = [id \in {Id111} |-> [title |-> TitleT, pubdate |-> PubDate2020]]
    /\ ret = [kind |-> "tuple", value |-> << <<JohnSmith>>, affiliations >>]

\* the file with the one row 111, T, 2020, John Smith and the affiliation
OneRowFile(affiliation) ==
    [exists |-> TRUE,
     header |-> <<"Paper ID", "Title", "Publication Date", "Authors", "Affiliations">>,
     rows |-> << <<Id111, TitleT, PubDate2020, JohnSmith, affiliation>> >>]

\* C8 as stated: with affiliations ["Pfizer Inc, USA"] the end-to-end run writes the
\* file with exactly the one row 111, T, 2020, John Smith, "Pfizer Inc, USA".
C8_EndToEndWritesOneRow ==
    EndToEnd(<<PfizerIncUSA>>) => csv = OneRowFile(PfizerIncUSA)

\* C8: in the end-to-end run with affiliations ["Pfizer Inc, USA"] no keyword occurs
\* ("inc," is not "inc."), no row is kept and no file is written; with affiliations
\* ["Pfizer Inc., USA"] the file is written with exactly the one row 111, T, 2020,
\* John Smith, "Pfizer Inc., USA".
C8_EndToEndNeedsKeyword ==
    /\ EndToEnd(<<PfizerIncUSA>>) => (filtered_papers = <<>> /\ csv = NoFile)
    /\ EndToEnd(<<PfizerIncDotUSA>>) => csv = OneRowFile(PfizerIncDotUSA)

\* the end-to-end run with "Pfizer Inc, USA" has finished without a failed request
C8_Witness ==
    /\ EndToEnd(<<PfizerIncUSA>>)
    /\ Raised(log) = {}

\* the run is past the summary stage
PastSummary == pc \in {"main_121", "exit_123", "main_126", "get_author_affiliations",
                       "main_133", "done"}

\* C9 as stated: the summary request is issued exactly once in the run.
C9_SummaryRequestedExactlyOnce ==
    (entry = "__main__" /\ PastSummary) =>
        Cardinality(GetsTo(log, "esummary.fcgi")) = 1

\* C9: the summary stage is entered once, after the search, and each of its requests
\* lists all identifiers of the search result joined with commas; the request is
\* repeated only after it failed, so there is exactly one when the first succeeds
\* and never more than max_retries = 3, whatever the number of identifiers.
C9_SummaryRequestsBatched ==
    entry = "__main__" =>
        LET S == GetsTo(log, "esummary.fcgi")
        IN  /\ Cardinality(S) <= DEFAULT_MAX_RETRIES
            /\ PastSummary => Cardinality(S) >= 1
            /\ pc \in {"main_112", "fetch_papers", "main_116", "exit_118"} => S = {}
            /\ \A i \in S :
                   /\ paper_ids # <<>>
                   /\ IsJoined(log[i].params.id, <<",">>, paper_ids)
            /\ \A i, j \in S : i < j => log[i].raised
            /\ \A i, j \in S : \A k \in Gets(log) : (i < k /\ k < j) => k \in S

\* one request has fetched the summaries of two identifiers
C9_Witness ==
    /\ entry = "__main__"
    /\ pc = "main_121"
    /\ Len(paper_ids) = 2
    /\ Cardinality(GetsTo(log, "esummary.fcgi")) = 1
    /\ truthy(ret)

\* the positions in l of the file writes
Writes(l) == {i \in 1..Len(l) : l[i].ev = "to_csv"}

\* C10: the file exists exactly when the run ended after the loop over all
\* identifiers with at least one row; it is written at most once, as the last thing
\* the run does, with the header and one line per row; a run without a row, or one
\* that halted early, writes nothing.
C10_WrittenIffQualifying ==
    entry = "__main__" =>
        /\ csv.exists <=> (pc = "done" /\ filtered_papers # <<>>)
        /\ Cardinality(Writes(log)) = IF csv.exists THEN 1 ELSE 0
        /\ \A i \in Writes(log) : i = Len(log)
        /\ ~csv.exists => csv = NoFile
        /\ csv.exists =>
               /\ csv.header = <<"Paper ID", "Title", "Publication Date", "Authors",
                                 "Affiliations">>
               /\ Len(csv.rows) = Len(filtered_papers)
               /\ \A r \in 1..Len(csv.rows) : \A c \in 1..Len(csv.header) :
                      csv.rows[r][c] = filtered_papers[r][csv.header[c]]
        /\ pc = "done" => (idx = Len(paper_ids) + 1 /\ ~ENABLED Next)

\* a file with two rows has been written
C10_Witness ==
    /\ entry = "__main__"
    /\ pc = "done"
    /\ csv.exists
    /\ Len(csv.rows) = 2

-----------------------------------------------------------------------------
(* Failures and defaults inside the loop. *)

\* every one of the DEFAULT_MAX_RETRIES detail requests for id has failed
Exhausted(id) ==
    LET G == {i \in GetsTo(log, "efetch.fcgi") : log[i].params.id = id}
    IN  Cardinality(G) = DEFAULT_MAX_RETRIES /\ \A i \in G : log[i].raised

\* C11: when all attempts of the detail stage fail for an identifier, the call
\* returns a pair of empty lists and the paper gets no row, but the run goes on: the
\* loop steps to the next identifier with the rows gathered so far untouched, rows
\* are never dropped, and at the end every identifier of the summary mapping has had
\* its detail call.
C11_DetailFailureSkipsPaper ==
    /\ [](entry = "__main__" =>
            /\ \A r \in 1..Len(filtered_papers) : ~Exhausted(filtered_papers[r]["Paper ID"])
            /\ (pc = "main_133" /\ Exhausted(paper_ids[idx])) =>
                   ret = EmptyResult("get_author_affiliations")
            /\ pc = "done" => DetailCalls(log) = SelectSeq(paper_ids, InPaperData))
    /\ [][(entry = "__main__" /\ pc = "main_133" /\ Exhausted(paper_ids[idx])) =>
            /\ pc' = "main_126"
            /\ idx' = idx + 1
            /\ filtered_papers' = filtered_papers]_vars
    /\ [][entry = "__main__" =>
            /\ Len(filtered_papers') >= Len(filtered_papers)
            /\ SubSeq(filtered_papers', 1, Len(filtered_papers)) = filtered_papers]_vars

\* the detail stage failed three times for the first identifier and the second was
\* then fetched and gave a row
C11_Witness ==
    /\ entry = "__main__"
    /\ pc = "done"
    /\ paper_ids = <<Id1, Id2>>
    /\ Exhausted(Id1)
    /\ DetailCalls(log) = <<Id1, Id2>>
    /\ Len(filtered_papers) = 1
    /\ filtered_papers[1]["Paper ID"] = Id2

\* C12: fetch_papers returns at most retmax = 5 identifiers whatever the identifier
\* list of the response holds, so that a run makes at most 5 detail calls and keeps
\* at most 5 rows.
C12_AtMostFiveIdentifiers ==
    entry = "__main__" =>
           /\ pc = "main_116" => Len(ret.value) <= RETMAX
           /\ Len(paper_ids) <= RETMAX
           /\ Len(DetailCalls(log)) <= RETMAX
           /\ Len(filtered_papers) <= RETMAX

\* the set of the elements of l
Range(l) == {l[i] : i \in 1..Len(l)}

\* the successful search requests of l whose body has no esearchresult or no idlist
SearchesLackingFields(l) ==
    {i \in GetsTo(l, "esearch.fcgi") :
        /\ ~l[i].raised
        /\ \/ "esearchresult" \notin DOMAIN l[i].body
           \/ "idlist" \notin DOMAIN l[i].body.esearchresult}

\* the Title and Publication Date a row must carry for summary entry e
TitleOf(e) ==
    IF "title" \in DOMAIN e THEN e.title
    ELSE <<"N", "o", " ", "T", "i", "t", "l", "e", " ", "A", "v", "a", "i", "l", "a", "b", "l", "e">>
DateOf(e) ==
    IF "pubdate" \in DOMAIN e THEN e.pubdate
    ELSE <<"N", "o", " ", "D", "a", "t", "e", " ", "A", "v", "a", "i", "l", "a", "b", "l", "e">>

\* C13: a summary entry without title or pubdate does not stop the run: every
\* identifier of the summary mapping the loop has passed has had its detail call,
\* whatever fields its entry has; the paper gets a row exactly when a keyword occurs
\* in its affiliations, and the row carries the entry's title and date or else "No
\* Title Available" and "No Date Available". A search response without esearchresult
\* or idlist gives an empty list of identifiers, and the run halts as for no results.
C13_MissingFieldsDefaulted ==
    /\ [](entry = "__main__" =>
            /\ \A r \in 1..Len(filtered_papers) :
                   LET e == paper_data[filtered_papers[r]["Paper ID"]]
                   IN  /\ filtered_papers[r]["Title"] = TitleOf(e)
                       /\ filtered_papers[r]["Publication Date"] = DateOf(e)
            /\ pc \in {"main_126", "done"} =>
                   \A i \in 1..(idx - 1) :
                       InPaperData(paper_ids[i]) => paper_ids[i] \in Range(DetailCalls(log))
            /\ SearchesLackingFields(log) # {} =>
                   /\ pc \in {"main_116", "exit_118"}
                   /\ ret = [kind |-> "list", value |-> <<>>]
                   /\ GetsTo(log, "esummary.fcgi") = {})
    /\ [][(entry = "__main__" /\ pc = "main_133") =>
            /\ pc' = "main_126"
            /\ Len(filtered_papers') = Len(filtered_papers) + 1
                   <=> SomeKeywordOccurs(ret.value[2])]_vars

\* two papers whose summary entries are empty have been fetched and the first has
\* given a row with both placeholders
C13_Witness ==
    /\ entry = "__main__"
    /\ pc = "done"
    /\ Len(paper_ids) = 2
    /\ \A i \in 1..2 : InPaperData(paper_ids[i]) /\ DOMAIN paper_data[paper_ids[i]] = {}
    /\ Len(DetailCalls(log)) = 2
    /\ Len(filtered_papers) = 1
    /\ filtered_papers[1]["Paper ID"] = paper_ids[1]
    /\ filtered_papers[1]["Title"] = NoTitleAvailable
    /\ filtered_papers[1]["Publication Date"] = NoDateAvailable

-----------------------------------------------------------------------------
(* Delays of one stage call. *)

\* the positions in l of the sleeps
Sleeps(l) == {i \in 1..Len(l) : l[i].ev = "sleep"}

\* the number of requests among the first i events of l
AttemptsUpTo(l, i) == Cardinality({j \in Gets(l) : j <= i})

\* C14: in one stage call every sleep comes right after a failed request that was
\* not the last allowed one and lasts `delay` seconds, the same each time; every
\* failed request but the max_retries-th is followed by exactly one sleep, and then
\* by the next request or nothing yet; nothing follows a request that succeeded or
\* the max_retries-th failure; so there are at most max_retries - 1 sleeps (none when
\* max_retries is 0, as nothing is requested).
C14_FixedDelayBetweenAttempts ==
    entry \in StageFunctions =>
        /\ \A i \in Sleeps(log) :
               /\ i > 1
               /\ log[i - 1].ev = "GET"
               /\ log[i - 1].raised
               /\ AttemptsUpTo(log, i) < max_retries
               /\ log[i].secs = delay
               /\ i < Len(log) => log[i + 1].ev = "GET"
        /\ \A i \in Gets(log) :
               IF log[i].raised /\ AttemptsUpTo(log, i) < max_retries
               THEN i < Len(log) /\ log[i + 1].ev = "sleep"
               ELSE i = Len(log) /\ pc = "returned"
        /\ Cardinality(Sleeps(log)) <= (IF max_retries = 0 THEN 0 ELSE max_retries - 1)

\* fetch_papers(max_retries=3, delay=5) has returned after three failures: two sleeps
\* of 5 seconds, none after the last failure
C14_Witness ==
    /\ entry = "fetch_papers"
    /\ max_retries = 3
    /\ delay = 5
    /\ pc = "returned"
    /\ Len(log) = 5
    /\ Sleeps(log) = {2, 4}
    /\ Raised(log) = {1, 3, 5}
    /\ log[2].secs = 5 /\ log[4].secs = 5

-----------------------------------------------------------------------------
(* Properties of the parsing of a document. *)

\* the <Author> and <Affiliation> elements of doc from the i-th author on, in
\* document order
RECURSIVE Elements(_, _)
Elements(doc, i) ==
    IF i > Len(doc.Author)
    THEN [j \in 1..Len(doc.following) |->
             [tag |-> "Affiliation", text |-> doc.following[j], author |-> 0]]
    ELSE <<[tag |-> "Author", text |-> <<>>, author |-> i]>>
             \o [j \in 1..Len(doc.Author[i].Affiliation) |->
                    [tag |-> "Affiliation", text |-> doc.Author[i].Affiliation[j],
                     author |-> i]]
             \o Elements(doc, i + 1)

\* the positions in E of the <Affiliation> elements after the i-th <Author>
AffiliationsAfter(E, i) ==
    {q \in 1..Len(E) :
        /\ E[q].tag = "Affiliation"
        /\ \E p \in 1..(q - 1) : E[p].tag = "Author" /\ E[p].author = i}

\* the first of them
FirstAfter(E, i) ==
    CHOOSE q \in AffiliationsAfter(E, i) : \A r \in AffiliationsAfter(E, i) : q <= r

\* the name shown for an <Author>: fore name, a space, last name, or the one present
DisplayName(a) ==
    CASE a.ForeName # <<>> /\ a.LastName # <<>> -> a.ForeName[1] \o <<" ">> \o a.LastName[1]
      [] a.ForeName # <<>> /\ a.LastName = <<>> -> a.ForeName[1]
      [] a.ForeName = <<>> /\ a.LastName # <<>> -> a.LastName[1]
      [] OTHER -> <<>>

\* C15: for a document, the authors list has one name per <Author> in document order,
\* and the affiliations list has, for each <Author> in order, the text of the first
\* <Affiliation> after it in the document, if there is one, and nothing otherwise; so
\* affiliations is never longer than authors, an author without an <Affiliation> of
\* its own gets that of the next author that has one (which is then listed again for
\* that author), and only the first <Affiliation> of an author, or the first after
\* all authors, is ever listed.
C15_FirstFollowingAffiliation ==
    (entry = "parse_document" /\ pc = "returned") =>
        LET doc == arg.soup
            authors == ret.value[1]
            affiliations == ret.value[2]
            E == Elements(doc, 1)
            n == Len(doc.Author)
            Served == {i \in 1..n : AffiliationsAfter(E, i) # {}}
        IN  /\ Len(authors) = n
            /\ \A i \in 1..n : authors[i] = DisplayName(doc.Author[i])
            /\ Len(affiliations) = Cardinality(Served)
            /\ \A i \in Served :
                   affiliations[Cardinality({j \in Served : j <= i})] = E[FirstAfter(E, i)].text
            /\ Len(affiliations) <= Len(authors)
            /\ \A i, j \in 1..n :
                   (/\ i < j
                    /\ \A k \in i..(j - 1) : doc.Author[k].Affiliation = <<>>
                    /\ doc.Author[j].Affiliation # <<>>) =>
                       /\ affiliations[i] = doc.Author[j].Affiliation[1]
                       /\ affiliations[j] = doc.Author[j].Affiliation[1]
            /\ \A k \in 1..Len(affiliations) :
                   \/ \E j \in 1..n : /\ doc.Author[j].Affiliation # <<>>
                                       /\ affiliations[k] = doc.Author[j].Affiliation[1]
                   \/ doc.following # <<>> /\ affiliations[k] = doc.following[1]

\* an author without affiliation, then one with two: the first affiliation of the
\* second author is listed twice and the second affiliation not at all
C15_Witness ==
    /\ entry = "parse_document"
    /\ pc = "returned"
    /\ arg.soup = [Author |-> <<AuthorJohnOnly, AuthorSmithXYZ>>, following |-> <<>>]
    /\ ret.value = << << <<"J", "o", "h", "n">>, <<"S", "m", "i", "t", "h">> >>,
                      <<XYZCompanyHoldings, XYZCompanyHoldings>> >>

-----------------------------------------------------------------------------
(* The stage functions for every max_retries. *)

\* C16: for every max_retries, 0 included, a stage call that got no response returns
\* its empty result (an empty list, an empty dict, a pair of empty lists), and every
\* call that is over has returned a list, a dict or a pair.
C16_EmptyResultForEveryMaxRetries ==
    (entry \in StageFunctions /\ pc = "returned") =>
        /\ ret.kind \in {"list", "dict", "tuple"}
        /\ (\A i \in Gets(log) : log[i].raised) => ret = EmptyResult(entry)

-----------------------------------------------------------------------------
(* Termination and the number of requests of a run. *)

\* the run is over: exit() at line 118, exit() at line 123, or the end of the script
Final == pc \in {"exit_118", "exit_123", "done"}

\* C17: every run ends, at exit() after the search, at exit() after the summary, or
\* after the loop with or without the file, and does nothing afterwards; it makes at
\* most DEFAULT_MAX_RETRIES search requests, as many summary requests and that number
\* times len(paper_ids) detail requests; all search requests come before all summary
\* requests and these before all detail requests, a summary request only after
\* fetch_papers has returned and a detail request only after get_paper_details has;
\* a step makes at most one request.
C17_TerminatesWithinRequestBudget ==
    /\ <>Final
    /\ [][/\ ~Final
          /\ Cardinality(Gets(log')) <= Cardinality(Gets(log)) + 1]_<<position, log>>
    /\ [](/\ Cardinality(GetsTo(log, "esearch.fcgi")) <= DEFAULT_MAX_RETRIES
          /\ Cardinality(GetsTo(log, "esummary.fcgi")) <= DEFAULT_MAX_RETRIES
          /\ Cardinality(GetsTo(log, "efetch.fcgi")) <= DEFAULT_MAX_RETRIES * Len(paper_ids)
          /\ \A i \in GetsTo(log, "esearch.fcgi") :
                 \A j \in GetsTo(log, "esummary.fcgi") \cup GetsTo(log, "efetch.fcgi") : i < j
          /\ \A i \in GetsTo(log, "esummary.fcgi") :
                 \A j \in GetsTo(log, "efetch.fcgi") : i < j
          /\ GetsTo(log, "esummary.fcgi") # {} =>
                 pc \notin {"main_112", "fetch_papers", "main_116", "exit_118"}
          /\ GetsTo(log, "efetch.fcgi") # {} =>
                 pc \in {"get_author_affiliations", "main_133", "main_126", "done"})

\* a run over one identifier has ended after one search request, one summary request
\* and three failed detail requests
C17_Witness ==
    /\ entry = "__main__"
    /\ pc = "done"
    /\ Len(paper_ids) = 1
    /\ Cardinality(GetsTo(log, "esearch.fcgi")) = 1
    /\ Cardinality(GetsTo(log, "esummary.fcgi")) = 1
    /\ Cardinality(GetsTo(log, "efetch.fcgi")) = 3
    /\ ~csv.exists

====
